---- MODULE Spec2Model ----
(***************************************************************************)
(* Dashboard Builder (src/src/pages/Docs.tsx, function DashboardBuilder)   *)
(* with the route table of src/src/App.tsx.                                *)
(*                                                                         *)
(* Strings built by template literals are modelled as tuples of their      *)
(* parts, so `widget-${Date.now()}` is <<"widget", now>>.  An optional     *)
(* field (savedQuery?, visualConfig?, data?, query?, options?) is a        *)
(* sequence of length 0 (undefined) or 1 (present).                        *)
(*                                                                         *)
(* AuthProvider (src/src/contexts/AuthContext.tsx) with the backend it     *)
(* talks to: null is the sequence of length 0 as well.                     *)
(***************************************************************************)
EXTENDS Integers, Sequences, FiniteSets, TLC

VARIABLES
    dashboardName,         \* useState("")
    dashboardDescription,  \* useState("")
    dashboardState,        \* useState({layouts, widgets})
    dashboardId,           \* useParams().id, NoId when the route carries none
    store,                 \* the records held by DashboardService, by id
    now,                   \* the value Date.now() returns
    shown,                 \* the element the router renders
    effects,               \* the outside calls of the latest handler, in order
    steps,                 \* handlers run so far, where a run is cut at MaxSteps
    selectedWidgetId,      \* useState(null): the widget the panel configures
    showQueryDialog,       \* useState(false): the Query Selection dialog is open
    otherTab,              \* the builder of a second tab, not the one acting
    user,                  \* AuthProvider: useState<User | null>(null)
    session,               \* AuthProvider: useState<Session | null>(null)
    profile,               \* AuthProvider: useState<Profile | null>(null)
    loading,               \* AuthProvider: useState(true)
    authSession,           \* the session the backend client holds
    profiles,              \* the rows of the profiles table, by id
    timers,                \* user ids of the setTimeout(fetchProfile) not yet run
    fetches,               \* user ids of the profile selects awaited
    sessionPending,        \* the getSession() promise is not yet resolved
    href,                  \* the window.location.href assigned, none so far
    call                   \* the signIn, signUp or updateProfile in progress

\* The state of the configuration panel, which the handlers of the builder
\* outside the panel leave as it is.
panelVars == <<selectedWidgetId, showQueryDialog>>

\* The state of AuthProvider and of its backend, which the builder leaves
\* as it is.
authVars == <<user, session, profile, loading, authSession, profiles, timers,
              fetches, sessionPending, href, call>>

\* The state of the builder, which AuthProvider leaves as it is.
builderVars == <<dashboardName, dashboardDescription, dashboardState, dashboardId,
                 store, now, shown, effects, selectedWidgetId, showQueryDialog,
                 otherTab>>

\* What a handler of the builder outside the panel leaves as it is.
idle == <<steps, panelVars, otherTab, authVars>>

\* What a handler of the panel leaves as it is.
idlePanel == <<steps, otherTab, authVars>>

vars == <<dashboardName, dashboardDescription, dashboardState, dashboardId,
          store, now, shown, effects, steps, selectedWidgetId, showQueryDialog,
          otherTab, user, session, profile, loading, authSession, profiles, timers,
          fetches, sessionPending, href, call>>

\* ---------------------------------------------------------------- bounds
MaxClock == 1
MaxWidgets == 2
MaxSteps == 9

\* ------------------------------------------------------------- constants
Infinity == 1000000
DefaultW == 6
DefaultH == 4

Breakpoints == {"lg", "md", "sm", "xs", "xxs"}
COLS == [lg |-> 12, md |-> 10, sm |-> 6, xs |-> 4, xxs |-> 2]
INITIAL_LAYOUT == [lg |-> <<>>, md |-> <<>>, sm |-> <<>>, xs |-> <<>>, xxs |-> <<>>]
widgetTypes == {"bar", "pie", "line", "area", "table"}
RPC_ENDPOINT == "https://starknet-mainnet.reddio.com/rpc/v0_7"

Undefined == <<>>
NoId == <<>>
Some(v) == <<v>>

Min(a, b) == IF a < b THEN a ELSE b

WidgetId(t) == <<"widget", t>>
DashboardId(t) == <<"dashboard", t>>
DefaultTitle(type) == <<"New", type, "Widget">>

\* ------------------------------------------------------------ the router
BuilderPath == <<"builder">>
DashboardListPath == <<"dashboard">>
DashboardPath(id) == <<"dashboard", id>>

\* <Routes> of App: the element rendered for a path.
RouteElement(path) ==
    CASE path = <<"auth">> -> "Auth"
      [] path = <<"docs">> -> "Docs"
      [] path = <<>> -> "Index"
      [] path = <<"profile">> -> "Profile"
      [] path = <<"join-bounty">> -> "JoinBounty"
      [] path = <<"place-bounty">> -> "PlaceBounty"
      [] path = <<"create-bounty">> -> "CreateBounty"
      [] path = <<"query">> -> "QueryEditor"
      [] path = <<"analytics">> -> "Analytics"
      [] path = <<"bounties">> -> "Bounties"
      [] path = <<"builder">> -> "DashboardBuilder"
      [] path = <<"charts">> -> "DataVisualization"
      [] path = <<"wallet">> -> "Wallet"
      [] path = <<"contract-events-eda">> -> "ContractEventsEDA"
      [] path = <<"settings">> -> "Settings"
      [] path = <<"status">> -> "SystemStatus"
      [] OTHER -> "NotFound"

\* ------------------------------------------------- notifications, effects
Toast(title, description, variant) ==
    [call |-> "toast",
     arg |-> [title |-> title, description |-> description, variant |-> variant]]
Navigate(path) == [call |-> "navigate", arg |-> path]
ServiceSave(record) == [call |-> "DashboardService.saveDashboard", arg |-> record]
ServiceGet(id) == [call |-> "DashboardService.getDashboardById", arg |-> id]
Download(name, document) ==
    [call |-> "download", arg |-> [name |-> name, document |-> document]]

Calls(es, what) == SelectSeq(es, LAMBDA e : e.call = what)

\* navigate(path): the router renders the element the route table gives.
AfterNavigations(es, current) ==
    LET navs == Calls(es, "navigate")
    IN  IF navs = <<>> THEN current ELSE RouteElement(navs[Len(navs)].arg)

\* ----------------------------------------------------------------- state
\* The state a second tab holds of its own: that of a builder just constructed.
FreshSession ==
    [dashboardName |-> "",
     dashboardDescription |-> "",
     dashboardState |-> [layouts |-> INITIAL_LAYOUT, widgets |-> <<>>],
     dashboardId |-> NoId,
     shown |-> RouteElement(BuilderPath),
     effects |-> <<>>]

\* A DashboardBuilder just constructed.
Fresh ==
    /\ dashboardName = ""
    /\ dashboardDescription = ""
    /\ dashboardState = [layouts |-> INITIAL_LAYOUT, widgets |-> <<>>]
    /\ dashboardId = NoId
    /\ shown = RouteElement(BuilderPath)
    /\ effects = <<>>
    /\ now = 0
    /\ steps = 0
    /\ selectedWidgetId = Undefined
    /\ showQueryDialog = FALSE
    /\ otherTab = FreshSession

\* An AuthProvider just constructed: its effect has subscribed and called
\* getSession().
AuthFresh ==
    /\ user = Undefined
    /\ session = Undefined
    /\ profile = Undefined
    /\ loading = TRUE
    /\ timers = {}
    /\ fetches = {}
    /\ sessionPending = TRUE
    /\ href = Undefined
    /\ call = Undefined

Init ==
    /\ Fresh
    /\ store = <<>>
    /\ AuthFresh
    /\ authSession = Undefined
    /\ profiles = <<>>

Mounted == shown = "DashboardBuilder"

\* ------------------------------------------------------------- addWidget
\* A clamp that was left out.
ClampW_Unclamped(w, bp) == w

ClampW(w, bp) == Min(w, COLS[bp])

NewWidget(type) ==
    [id |-> WidgetId(now), type |-> type, title |-> DefaultTitle(type),
     savedQuery |-> Undefined, visualConfig |-> Undefined, data |-> Undefined,
     x |-> 0, y |-> Infinity, w |-> DefaultW, h |-> DefaultH]

LayoutOf(widget) ==
    [i |-> widget.id, x |-> widget.x, y |-> widget.y, w |-> widget.w, h |-> widget.h]

AddToLayouts(layouts, layout) ==
    [lg  |-> Append(layouts.lg, layout),
     md  |-> Append(layouts.md, [layout EXCEPT !.w = ClampW(layout.w, "md")]),
     sm  |-> Append(layouts.sm, [layout EXCEPT !.w = ClampW(layout.w, "sm")]),
     xs  |-> Append(layouts.xs, [layout EXCEPT !.w = ClampW(layout.w, "xs")]),
     xxs |-> Append(layouts.xxs, [layout EXCEPT !.w = ClampW(layout.w, "xxs")])]

addWidget(type) ==
    /\ Mounted
    /\ Len(dashboardState.widgets) < MaxWidgets
    /\ LET newWidget == NewWidget(type)
           layout == LayoutOf(newWidget)
       IN  dashboardState' =
               [layouts |-> AddToLayouts(dashboardState.layouts, layout),
                widgets |-> Append(dashboardState.widgets, newWidget)]
    /\ effects' = <<>>
    /\ UNCHANGED <<dashboardName, dashboardDescription, dashboardId, store, now, shown>>

\* ---------------------------------------------------------- updateWidget
\* A merge that also clears the configuration of a widget it touches.
Merge_ClearsConfig(w, updates) ==
    [f \in DOMAIN w |->
        IF f \in DOMAIN updates THEN updates[f]
        ELSE IF f = "visualConfig" THEN Undefined ELSE w[f]]

\* { ...w, ...updates }: the keys of updates take its values.
Merge(w, updates) ==
    [f \in DOMAIN w |-> IF f \in DOMAIN updates THEN updates[f] ELSE w[f]]

UpdateWidgets(widgets, id, updates) ==
    [k \in 1..Len(widgets) |->
        IF widgets[k].id = id THEN Merge(widgets[k], updates) ELSE widgets[k]]

updateWidget(id, updates) ==
    /\ Mounted
    /\ dashboardState' =
           [dashboardState EXCEPT !.widgets = UpdateWidgets(@, id, updates)]
    /\ effects' = <<>>
    /\ UNCHANGED <<dashboardName, dashboardDescription, dashboardId, store, now, shown>>

\* -------------------------------------------------------- onLayoutChange
\* A handler that takes the array of the large breakpoint only.
onLayoutChange_LargeOnly(layouts) ==
    /\ Mounted
    /\ dashboardState' = [dashboardState EXCEPT !.layouts.lg = layouts.lg]
    /\ effects' = <<>>
    /\ UNCHANGED <<dashboardName, dashboardDescription, dashboardId, store, now, shown>>

onLayoutChange(layouts) ==
    /\ Mounted
    /\ dashboardState' = [dashboardState EXCEPT !.layouts = layouts]
    /\ effects' = <<>>
    /\ UNCHANGED <<dashboardName, dashboardDescription, dashboardId, store, now, shown>>

\* What <ResponsiveGridLayout> hands to onLayoutChange at breakpoint bp: one
\* item per child, keyed by the child's key (widget.id), taken from the first
\* item of that key in the layout it was given, the column stacked from row 0;
\* the other breakpoints as they were passed in.
FirstWithKey(items, key) ==
    items[CHOOSE k \in 1..Len(items) :
              /\ items[k].i = key
              /\ \A j \in 1..(k - 1) : items[j].i # key]

HasKey(items, key) == \E k \in 1..Len(items) : items[k].i = key

GridItems(widgets, items, bp) ==
    [k \in 1..Len(widgets) |->
        LET key == widgets[k].id
            w == IF HasKey(items, key) THEN FirstWithKey(items, key).w
                 ELSE ClampW(widgets[k].w, bp)
        IN  [i |-> key, x |-> 0, y |-> DefaultH * (k - 1), w |-> w, h |-> DefaultH]]

GridLayouts(state, bp) ==
    [state.layouts EXCEPT ![bp] = GridItems(state.widgets, state.layouts[bp], bp)]

\* ------------------------------------------------ name and description
setDashboardName(value) ==
    /\ Mounted
    /\ dashboardName' = value
    /\ effects' = <<>>
    /\ UNCHANGED <<dashboardDescription, dashboardState, dashboardId, store, now, shown>>

setDashboardDescription(value) ==
    /\ Mounted
    /\ dashboardDescription' = value
    /\ effects' = <<>>
    /\ UNCHANGED <<dashboardName, dashboardState, dashboardId, store, now, shown>>

\* ------------------------------------------------------ DashboardService
\* saveDashboard(record): upsert by record.id.
Upsert(records, record) ==
    [id \in DOMAIN records \cup {record.id} |->
        IF id = record.id THEN record ELSE records[id]]

\* getDashboardById(id): the record, or undefined.
getDashboardById(records, id) ==
    IF id \in DOMAIN records THEN Some(records[id]) ELSE Undefined

\* ---------------------------------------------------------- saveDashboard
\* A mapping that forgets the visualization config.
PersistedWidget_NoOptions(widget) ==
    [id |-> widget.id,
     type |-> widget.type,
     title |-> widget.title,
     query |-> IF widget.savedQuery = Undefined THEN Undefined
               ELSE Some(widget.savedQuery[1].query_text),
     options |-> Undefined,
     data |-> widget.data]

PersistedWidget(widget) ==
    [id |-> widget.id,
     type |-> widget.type,
     title |-> widget.title,
     query |-> IF widget.savedQuery = Undefined THEN Undefined
               ELSE Some(widget.savedQuery[1].query_text),
     options |-> widget.visualConfig,
     data |-> widget.data]

PersistedWidgets(widgets) == [k \in 1..Len(widgets) |-> PersistedWidget(widgets[k])]

ConfigId == IF dashboardId # NoId THEN dashboardId ELSE DashboardId(now)

DashboardConfig ==
    [id |-> ConfigId,
     name |-> dashboardName,
     description |-> dashboardDescription,
     layout |-> dashboardState.layouts,
     widgets |-> PersistedWidgets(dashboardState.widgets),
     createdAt |-> now,
     updatedAt |-> now]

ValidationToast == Toast("Error", "Please enter a dashboard name", "destructive")
SaveSuccessToast == Toast("Success", "Dashboard saved successfully", "default")
SaveFailedToast == Toast("Error", "Failed to save dashboard", "destructive")

\* A check of the name that was left out.
NameMissing_Unchecked == FALSE

NameMissing == dashboardName = ""

saveRejected ==
    /\ NameMissing
    /\ effects' = <<ValidationToast>>
    /\ UNCHANGED <<store, shown>>

\* A save that keeps the stored description where none is held.
saveStored_KeepsStored ==
    /\ ~NameMissing
    /\ store' = Upsert(store,
                       [DashboardConfig EXCEPT !.description =
                           IF @ = "" /\ ConfigId \in DOMAIN store
                           THEN store[ConfigId].description ELSE @])
    /\ effects' = <<ServiceSave(DashboardConfig)>>
                  \o (IF dashboardId = NoId
                      THEN <<Navigate(DashboardPath(DashboardConfig.id))>>
                      ELSE <<>>)
                  \o <<SaveSuccessToast>>
    /\ shown' = AfterNavigations(effects', shown)

\* A save that navigates whether or not the route carries an id.
saveStored_AlwaysNavigates ==
    /\ ~NameMissing
    /\ store' = Upsert(store, DashboardConfig)
    /\ effects' = <<ServiceSave(DashboardConfig),
                    Navigate(DashboardPath(DashboardConfig.id)), SaveSuccessToast>>
    /\ shown' = AfterNavigations(effects', shown)

saveStored ==
    /\ ~NameMissing
    /\ store' = Upsert(store, DashboardConfig)
    /\ effects' = <<ServiceSave(DashboardConfig)>>
                  \o (IF dashboardId = NoId
                      THEN <<Navigate(DashboardPath(DashboardConfig.id))>>
                      ELSE <<>>)
                  \o <<SaveSuccessToast>>
    /\ shown' = AfterNavigations(effects', shown)

\* A catch block that calls the service once more before it reports.
saveThrown_Retried ==
    /\ ~NameMissing
    /\ effects' = <<ServiceSave(DashboardConfig), ServiceSave(DashboardConfig),
                    SaveFailedToast>>
    /\ UNCHANGED <<store, shown>>

\* DashboardService.saveDashboard throws: control passes to the catch block.
saveThrown ==
    /\ ~NameMissing
    /\ effects' = <<ServiceSave(DashboardConfig), SaveFailedToast>>
    /\ UNCHANGED <<store, shown>>

saveDashboard ==
    /\ Mounted
    /\ \/ saveRejected
       \/ saveStored
       \/ saveThrown
    /\ UNCHANGED <<dashboardName, dashboardDescription, dashboardState, dashboardId, now>>

\* A handler whose save reads the name and description it has just set.
onSave_ReadsNewValues(name, description) ==
    /\ Mounted
    /\ dashboardName' = name
    /\ dashboardDescription' = description
    /\ IF name = ""
       THEN /\ effects' = <<ValidationToast>>
            /\ UNCHANGED <<store, shown>>
       ELSE LET config == [DashboardConfig EXCEPT !.name = name,
                                                  !.description = description]
            IN  /\ store' = Upsert(store, config)
                /\ effects' = <<ServiceSave(config)>>
                              \o (IF dashboardId = NoId
                                  THEN <<Navigate(DashboardPath(config.id))>>
                                  ELSE <<>>)
                              \o <<SaveSuccessToast>>
                /\ shown' = AfterNavigations(effects', shown)
    /\ UNCHANGED <<dashboardState, dashboardId, now>>

\* onSave of SaveDashboardDialog: the two setters queue the new values for the
\* next render, and saveDashboard() is the function of this render, which
\* reads the dashboardName and dashboardDescription of this render.
onSave(name, description) ==
    /\ Mounted
    /\ dashboardName' = name
    /\ dashboardDescription' = description
    /\ \/ saveRejected
       \/ saveStored
       \/ saveThrown
    /\ UNCHANGED <<dashboardState, dashboardId, now>>

\* ----------------------------------------------------------- load effect
\* A reconstruction that gives the synthetic query the widget's own id.
LoadedWidget_BareId(widget) ==
    [id |-> widget.id,
     type |-> widget.type,
     title |-> widget.title,
     savedQuery |-> IF widget.query # Undefined /\ widget.query[1] # ""
                    THEN Some([id |-> widget.id,
                               title |-> widget.title,
                               query_text |-> widget.query[1],
                               description |-> ""])
                    ELSE Undefined,
     visualConfig |-> widget.options,
     data |-> widget.data,
     x |-> 0, y |-> 0, w |-> 6, h |-> 4]

LoadedWidget(widget) ==
    [id |-> widget.id,
     type |-> widget.type,
     title |-> widget.title,
     savedQuery |-> IF widget.query # Undefined /\ widget.query[1] # ""
                    THEN Some([id |-> <<"query", widget.id>>,
                               title |-> widget.title,
                               query_text |-> widget.query[1],
                               description |-> ""])
                    ELSE Undefined,
     visualConfig |-> widget.options,
     data |-> widget.data,
     x |-> 0, y |-> 0, w |-> 6, h |-> 4]

LoadedWidgets(widgets) == [k \in 1..Len(widgets) |-> LoadedWidget(widgets[k])]

LoadedDescription(dashboard, held) ==
    IF dashboard.description # "" THEN dashboard.description ELSE held

LoadedToast == Toast("Dashboard loaded", "Successfully loaded dashboard", "default")
NotFoundToast == Toast("Error", "Dashboard not found", "destructive")

loadFound(id) ==
    LET dashboard == getDashboardById(store, id)[1]
    IN  /\ getDashboardById(store, id) # Undefined
        /\ dashboardName' = dashboard.name
        /\ dashboardDescription' = LoadedDescription(dashboard, dashboardDescription)
        /\ dashboardState' = [layouts |-> dashboard.layout,
                              widgets |-> LoadedWidgets(dashboard.widgets)]
        /\ effects' = <<ServiceGet(id), LoadedToast>>
        /\ UNCHANGED shown

loadMissing(id) ==
    /\ getDashboardById(store, id) = Undefined
    /\ effects' = <<ServiceGet(id), NotFoundToast, Navigate(DashboardListPath)>>
    /\ shown' = AfterNavigations(effects', shown)
    /\ UNCHANGED <<dashboardName, dashboardDescription, dashboardState>>

\* useEffect(..., [dashboardId]): runs when the builder is rendered with a
\* route id it was not rendered with before.  useParams yields an id only under
\* a route with an :id segment; which id arrives is an input of the model.
loadEffect(id) ==
    /\ Mounted
    /\ id # dashboardId
    /\ dashboardId' = id
    /\ \/ loadFound(id)
       \/ loadMissing(id)
    /\ UNCHANGED <<store, now>>

\* -------------------------------------------------------- exportDashboard
OptionalKeys == {"savedQuery", "visualConfig", "data", "xAxis", "yAxis", "aggregation",
                 "description", "results"}

\* JSON.stringify leaves out the keys whose value is undefined.
JSONObject(object) ==
    [key \in {k \in DOMAIN object : k \in OptionalKeys => object[k] # Undefined} |->
        IF key \in OptionalKeys THEN object[key][1] ELSE object[key]]

\* JSON.stringify writes a number that is not finite as null.
JSONNumber(n) == IF n = Infinity THEN <<>> ELSE <<n>>

JSONWidget(widget) ==
    LET w == [widget EXCEPT !.y = JSONNumber(@)]
    IN  JSONObject(w)

JSONLayoutItem(item) == [item EXCEPT !.y = JSONNumber(@)]

JSONLayouts(layouts) ==
    [bp \in DOMAIN layouts |->
        [k \in 1..Len(layouts[bp]) |-> JSONLayoutItem(layouts[bp][k])]]

\* An export that leaves out the widgets no query is bound to.
ExportedWidgets_BoundOnly(widgets) ==
    LET bound == SelectSeq(widgets, LAMBDA w : w.savedQuery # Undefined)
    IN  [k \in 1..Len(bound) |-> JSONWidget(bound[k])]

ExportedWidgets(widgets) == [k \in 1..Len(widgets) |-> JSONWidget(widgets[k])]

ExportDocument ==
    [name |-> dashboardName,
     description |-> dashboardDescription,
     layouts |-> JSONLayouts(dashboardState.layouts),
     widgets |-> ExportedWidgets(dashboardState.widgets),
     rpc_endpoint |-> RPC_ENDPOINT]

ExportName ==
    <<IF dashboardName # "" THEN dashboardName ELSE "dashboard", "_", now, ".json">>

ExportSuccessToast == Toast("Success", "Dashboard exported successfully", "default")

exportDashboard ==
    /\ Mounted
    /\ effects' = <<Download(ExportName, ExportDocument), ExportSuccessToast>>
    /\ UNCHANGED <<dashboardName, dashboardDescription, dashboardState,
                   dashboardId, store, now, shown>>

\* ------------------------------------------------- values of a result row
\* A value of a result row is its typeof tag with its text as a sequence of
\* characters; null has the tag "null" (typeof null is "object").
NaN == <<>>
JSNumber(text) == [t |-> "number", v |-> text]
JSString(text) == [t |-> "string", v |-> text]
JSBoolean(text) == [t |-> "boolean", v |-> text]
JSNull == [t |-> "null", v |-> <<>>]

TypeOf(value) == IF value.t = "null" THEN "object" ELSE value.t

Digits == <<"0", "1", "2", "3", "4", "5", "6", "7", "8", "9">>
DigitValue(c) == (CHOOSE k \in 1..10 : Digits[k] = c) - 1
IsDigit(c) == \E k \in 1..10 : Digits[k] = c

RECURSIVE TrimStart(_)
TrimStart(text) ==
    IF text # <<>> /\ Head(text) = " " THEN TrimStart(Tail(text)) ELSE text

RECURSIVE TrimEnd(_)
TrimEnd(text) ==
    IF text # <<>> /\ text[Len(text)] = " "
    THEN TrimEnd(SubSeq(text, 1, Len(text) - 1)) ELSE text

RECURSIVE DecimalValue(_)
DecimalValue(digits) ==
    IF digits = <<>> THEN 0
    ELSE 10 * DecimalValue(SubSeq(digits, 1, Len(digits) - 1))
         + DigitValue(digits[Len(digits)])

\* Number(string), for the signed decimal integer literals: white space is
\* trimmed, the empty string is 0, any other text is NaN.
StringToNumber(text) ==
    LET trimmed == TrimEnd(TrimStart(text))
        signed == trimmed # <<>> /\ Head(trimmed) \in {"+", "-"}
        digits == IF signed THEN Tail(trimmed) ELSE trimmed
    IN  IF trimmed = <<>> THEN Some(0)
        ELSE IF digits # <<>> /\ \A k \in 1..Len(digits) : IsDigit(digits[k])
        THEN Some(IF signed /\ Head(trimmed) = "-"
                  THEN 0 - DecimalValue(digits) ELSE DecimalValue(digits))
        ELSE NaN

\* Number(value): NaN, or <<n>> for the number n.
ToNumber(value) ==
    CASE value.t = "number" ->
             IF value.v = <<"N", "a", "N">> THEN NaN ELSE StringToNumber(value.v)
      [] value.t = "string" -> StringToNumber(value.v)
      [] value.t = "boolean" -> IF value.v = <<"t", "r", "u", "e">> THEN Some(1) ELSE Some(0)
      [] value.t = "null" -> Some(0)
      [] OTHER -> NaN

isNaN(number) == number = NaN

\* ---------------------------------------------------- configuration panel
\* dashboardState.widgets.find(w => w.id === selectedWidgetId)
SelectedWidgetData ==
    LET found == SelectSeq(dashboardState.widgets,
                           LAMBDA w : selectedWidgetId # Undefined
                                      /\ w.id = selectedWidgetId[1])
    IN  IF found = <<>> THEN Undefined ELSE Some(found[1])

PanelShown ==
    /\ Mounted
    /\ ~showQueryDialog
    /\ selectedWidgetId # Undefined
    /\ SelectedWidgetData # Undefined

\* savedQuery.results?.[0]?.results: the rows of the first result set.
FirstRows(savedQuery) ==
    IF "results" \notin DOMAIN savedQuery THEN Undefined
    ELSE IF savedQuery.results = Undefined THEN Undefined
    ELSE IF savedQuery.results[1] = <<>> THEN Undefined
    ELSE Some(savedQuery.results[1][1].results)

\* results[0].results[0] || {}
FirstRow(rows) == IF rows = <<>> THEN <<>> ELSE rows[1]

\* Object.keys(row), in insertion order.
ObjectKeys(row) == [k \in 1..Len(row) |-> row[k].key]

ValueAt(row, key) == row[CHOOSE k \in 1..Len(row) : row[k].key = key].value

XAxisOptions(savedQuery) ==
    IF FirstRows(savedQuery) = Undefined THEN <<>>
    ELSE ObjectKeys(FirstRow(FirstRows(savedQuery)[1]))

\* A filter that takes numbers only, without coercion.
NumericKey_NumbersOnly(row, key) == TypeOf(ValueAt(row, key)) = "number"

NumericKey(row, key) ==
    \/ TypeOf(ValueAt(row, key)) = "number"
    \/ ~isNaN(ToNumber(ValueAt(row, key)))

YAxisOptions(savedQuery) ==
    IF FirstRows(savedQuery) = Undefined THEN <<>>
    ELSE LET row == FirstRow(FirstRows(savedQuery)[1])
         IN  SelectSeq(ObjectKeys(row), LAMBDA key : NumericKey(row, key))

\* {...selectedWidgetData.visualConfig, [field]: value}
NoConfig == [type |-> Undefined, xAxis |-> Undefined, yAxis |-> Undefined,
             aggregation |-> Undefined]
SpreadConfig(visualConfig, field, value) ==
    [(IF visualConfig = Undefined THEN NoConfig ELSE visualConfig[1])
        EXCEPT ![field] = Some(value)]

\* onClick of a widget's card in the grid.
selectWidget(id) ==
    /\ Mounted
    /\ ~showQueryDialog
    /\ \E k \in 1..Len(dashboardState.widgets) : dashboardState.widgets[k].id = id
    /\ selectedWidgetId' = Some(id)
    /\ effects' = <<>>
    /\ UNCHANGED <<dashboardName, dashboardDescription, dashboardState,
                   dashboardId, store, now, shown, showQueryDialog>>

changeTitle(value) ==
    /\ PanelShown
    /\ updateWidget(SelectedWidgetData[1].id, [title |-> value])
    /\ UNCHANGED panelVars

\* The Change Query button, rendered when a query is bound.
changeQuery ==
    /\ PanelShown
    /\ SelectedWidgetData[1].savedQuery # Undefined
    /\ updateWidget(SelectedWidgetData[1].id,
                    [savedQuery |-> Undefined, visualConfig |-> Undefined])
    /\ UNCHANGED panelVars

\* The Select a Query button, rendered when no query is bound.
openQueryDialog ==
    /\ PanelShown
    /\ SelectedWidgetData[1].savedQuery = Undefined
    /\ showQueryDialog' = TRUE
    /\ effects' = <<>>
    /\ UNCHANGED <<dashboardName, dashboardDescription, dashboardState,
                   dashboardId, store, now, shown, selectedWidgetId>>

\* onOpenChange of the dialog when it is dismissed.
dismissQueryDialog ==
    /\ Mounted
    /\ showQueryDialog
    /\ showQueryDialog' = FALSE
    /\ effects' = <<>>
    /\ UNCHANGED <<dashboardName, dashboardDescription, dashboardState,
                   dashboardId, store, now, shown, selectedWidgetId>>

\* onClick of a query's card in the Query Selection dialog.
selectQuery(query) ==
    /\ Mounted
    /\ showQueryDialog
    /\ IF SelectedWidgetData # Undefined
       THEN /\ updateWidget(SelectedWidgetData[1].id, [savedQuery |-> Some(query)])
            /\ showQueryDialog' = FALSE
       ELSE /\ effects' = <<>>
            /\ UNCHANGED <<dashboardName, dashboardDescription, dashboardState,
                           dashboardId, store, now, shown, showQueryDialog>>
    /\ UNCHANGED selectedWidgetId

\* The selects of the Visualization Configuration, rendered when a query is
\* bound; a select offers its items only.
ConfigShown ==
    /\ PanelShown
    /\ SelectedWidgetData[1].savedQuery # Undefined

setConfig(field, value) ==
    /\ updateWidget(SelectedWidgetData[1].id,
                    [visualConfig |->
                        Some(SpreadConfig(SelectedWidgetData[1].visualConfig,
                                          field, value))])
    /\ UNCHANGED panelVars

selectVisualizationType(value) ==
    /\ ConfigShown
    /\ value \in widgetTypes
    /\ setConfig("type", value)

selectXAxis(value) ==
    /\ ConfigShown
    /\ \E k \in DOMAIN XAxisOptions(SelectedWidgetData[1].savedQuery[1]) :
           XAxisOptions(SelectedWidgetData[1].savedQuery[1])[k] = value
    /\ setConfig("xAxis", value)

selectYAxis(value) ==
    /\ ConfigShown
    /\ \E k \in DOMAIN YAxisOptions(SelectedWidgetData[1].savedQuery[1]) :
           YAxisOptions(SelectedWidgetData[1].savedQuery[1])[k] = value
    /\ setConfig("yAxis", value)

Aggregations == {"sum", "avg", "count", "min", "max"}

selectAggregation(value) ==
    /\ ConfigShown
    /\ SelectedWidgetData[1].visualConfig # Undefined
    /\ SelectedWidgetData[1].visualConfig[1].type \in {Some("bar"), Some("pie")}
    /\ value \in Aggregations
    /\ setConfig("aggregation", value)

\* ----------------------------------------------------------- two sessions
\* The user turns to the other tab: its builder is the one whose handlers run
\* from now on, and this one waits as it is.  The store and the clock are
\* those of both.
switchSession ==
    /\ otherTab' = [dashboardName |-> dashboardName,
                 dashboardDescription |-> dashboardDescription,
                 dashboardState |-> dashboardState,
                 dashboardId |-> dashboardId,
                 shown |-> shown,
                 effects |-> effects]
    /\ dashboardName' = otherTab.dashboardName
    /\ dashboardDescription' = otherTab.dashboardDescription
    /\ dashboardState' = otherTab.dashboardState
    /\ dashboardId' = otherTab.dashboardId
    /\ shown' = otherTab.shown
    /\ effects' = otherTab.effects
    /\ UNCHANGED <<store, now>>

\* ------------------------------------------------------------ mounting
\* The user opens /builder: a new DashboardBuilder with its initial state.
Mount ==
    /\ dashboardName' = ""
    /\ dashboardDescription' = ""
    /\ dashboardState' = [layouts |-> INITIAL_LAYOUT, widgets |-> <<>>]
    /\ dashboardId' = NoId
    /\ shown' = RouteElement(BuilderPath)
    /\ effects' = <<>>
    /\ UNCHANGED <<store, now>>

\* -------------------------------------------------------------- the clock
Tick ==
    /\ now < MaxClock
    /\ now' = now + 1
    /\ UNCHANGED <<dashboardName, dashboardDescription, dashboardState,
                   dashboardId, store, shown, effects>>

\* ----------------------------------------------------------- AuthProvider
Users == {"u1", "u2"}
SessionOf(userId) == [user |-> userId]
Sessions == {SessionOf(userId) : userId \in Users}

\* session?.user ?? null
UserOf(s) == IF s = Undefined THEN Undefined ELSE Some(s[1].user)

\* The page lives until a window.location.href assignment replaces it.
PageAlive == href = Undefined

\* A callback that shows the loading state again while a profile is to be
\* fetched.
AuthStateChanged_LoadsAgain(s) ==
    /\ session' = s
    /\ user' = UserOf(s)
    /\ IF UserOf(s) # Undefined
       THEN /\ timers' = timers \cup {s[1].user}
            /\ UNCHANGED profile
       ELSE /\ profile' = Undefined
            /\ UNCHANGED timers
    /\ loading' = (UserOf(s) # Undefined)

\* The callback given to onAuthStateChange, called with the session s.
AuthStateChanged(s) ==
    /\ session' = s
    /\ user' = UserOf(s)
    /\ IF UserOf(s) # Undefined
       THEN /\ timers' = timers \cup {s[1].user}
            /\ UNCHANGED profile
       ELSE /\ profile' = Undefined
            /\ UNCHANGED timers
    /\ loading' = FALSE

\* The backend client changes its session (a sign-in or sign-out in another
\* tab, an expiry) and calls the subscribed callback with it.
onAuthStateChange(s) ==
    /\ PageAlive
    /\ authSession' = s
    /\ AuthStateChanged(s)
    /\ UNCHANGED <<profiles, fetches, sessionPending, href, call>>
    /\ UNCHANGED <<builderVars, steps>>

\* supabase.auth.getSession().then(...)
getSessionResolved ==
    /\ PageAlive
    /\ sessionPending
    /\ sessionPending' = FALSE
    /\ session' = authSession
    /\ user' = UserOf(authSession)
    /\ timers' = IF UserOf(authSession) # Undefined
                 THEN timers \cup {authSession[1].user} ELSE timers
    /\ loading' = FALSE
    /\ UNCHANGED <<profile, authSession, profiles, fetches, href, call>>
    /\ UNCHANGED <<builderVars, steps>>

\* setTimeout(() => fetchProfile(session.user.id), 0) runs: the select of
\* fetchProfile is sent and awaited.
fetchProfile(userId) ==
    /\ PageAlive
    /\ userId \in timers
    /\ timers' = timers \ {userId}
    /\ fetches' = fetches \cup {userId}
    /\ UNCHANGED <<user, session, profile, loading, authSession, profiles,
                   sessionPending, href, call>>
    /\ UNCHANGED <<builderVars, steps>>

\* The select of fetchProfile returns the one row of that id: setProfile(data).
fetchProfileData(userId) ==
    /\ userId \in DOMAIN profiles
    /\ profile' = Some(profiles[userId])

\* The select returns an error (no row of that id, or the request failed):
\* fetchProfile throws into its own catch, which logs.
fetchProfileError(userId) ==
    /\ UNCHANGED profile

fetchProfileDone(userId) ==
    /\ PageAlive
    /\ userId \in fetches
    /\ fetches' = fetches \ {userId}
    /\ \/ fetchProfileData(userId)
       \/ fetchProfileError(userId)
    /\ UNCHANGED <<user, session, loading, authSession, profiles, timers,
                   sessionPending, href, call>>
    /\ UNCHANGED <<builderVars, steps>>

\* A sign-out that redirects and leaves the profile held.
signOutReturned_KeepsProfile ==
    /\ authSession' = Undefined
    /\ user' = Undefined
    /\ session' = Undefined
    /\ UNCHANGED profile
    /\ loading' = FALSE
    /\ href' = Some(<<"auth">>)

\* await supabase.auth.signOut({scope: 'global'}) returns: the client has
\* dropped its session and called the subscribed callback with null.
signOutReturned ==
    /\ authSession' = Undefined
    /\ user' = Undefined
    /\ session' = Undefined
    /\ profile' = Undefined
    /\ loading' = FALSE
    /\ href' = Some(<<"auth">>)

\* await supabase.auth.signOut(...) throws: the catch block logs.
signOutThrown ==
    /\ UNCHANGED <<authSession, user, session, profile, loading, href>>

signOut ==
    /\ PageAlive
    /\ \/ signOutReturned
       \/ signOutThrown
    /\ UNCHANGED <<profiles, timers, fetches, sessionPending, call>>
    /\ UNCHANGED <<builderVars, steps>>

\* ------------------------------------------------ the profiles table
\* An e-mail address is <<local part, domain>>; the backend gives the user of
\* an address the id of its local part.
LocalPart(email) == email[1]
UserIdOf(email) == email[1]

\* The columns a row takes when an insert does not give them.
ColumnDefaults ==
    [username |-> "", full_name |-> "", role |-> "analyst",
     email_verified |-> FALSE, onboarding_completed |-> FALSE,
     total_earnings |-> 0, reputation_score |-> 0, bio |-> Undefined]

\* The columns of row over those of base.
Over(base, row) ==
    [column \in DOMAIN base \cup DOMAIN row |->
        IF column \in DOMAIN row THEN row[column] ELSE base[column]]

\* from('profiles').upsert(row): the row of that id takes the columns given,
\* and is inserted with the defaults for the others if there is none.
ProfilesUpsert(table, row) ==
    [id \in DOMAIN table \cup {row.id} |->
        IF id # row.id THEN table[id]
        ELSE IF id \in DOMAIN table THEN Over(table[id], row)
        ELSE Over(ColumnDefaults, row)]

\* from('profiles').update(updates).eq('id', id): no row, no change.
ProfilesUpdate(table, id, updates) ==
    [k \in DOMAIN table |-> IF k = id THEN Over(table[k], updates) ELSE table[k]]

\* value || fallback, for strings
OrElse(value, fallback) ==
    IF value = Undefined \/ value = Some("") THEN fallback ELSE value[1]

Field(object, name) ==
    IF object = Undefined THEN Undefined
    ELSE IF name \in DOMAIN object[1] THEN Some(object[1][name]) ELSE Undefined

\* The row signUp upserts.
SignUpRow(userId, email, userData) ==
    [id |-> userId,
     username |-> OrElse(Field(userData, "username"), LocalPart(email)),
     full_name |-> OrElse(Field(userData, "full_name"), ""),
     role |-> OrElse(Field(userData, "role"), "analyst"),
     email_verified |-> TRUE,
     onboarding_completed |-> TRUE,
     total_earnings |-> 0,
     reputation_score |-> 0]

\* A row that names the user and leaves the counters and flags alone.
SignInRow_IdentityOnly(userId, email, metadata) ==
    [id |-> userId,
     username |-> OrElse(Some(LocalPart(email)), "user"),
     full_name |-> OrElse(Field(metadata, "full_name"), ""),
     role |-> OrElse(Field(metadata, "role"), "analyst")]

\* The row signIn upserts; metadata is data.user.user_metadata.
SignInRow(userId, email, metadata) ==
    [id |-> userId,
     username |-> OrElse(Some(LocalPart(email)), "user"),
     full_name |-> OrElse(Field(metadata, "full_name"), ""),
     role |-> OrElse(Field(metadata, "role"), "analyst"),
     email_verified |-> TRUE,
     onboarding_completed |-> TRUE,
     total_earnings |-> 0,
     reputation_score |-> 0]

\* ------------------------------------------ signIn, signUp, updateProfile
\* One call of signIn, signUp or updateProfile at a time: fn is the function
\* called, pc the request it awaits ("returned" once it has returned), result
\* the error of the {error} it returned, "null" for none.
\* requests lists the backend requests the call has issued, oldest first.
Call(fn, pc, email, userData) ==
    [fn |-> fn, pc |-> pc, email |-> email, userData |-> userData,
     userId |-> "", result |-> "",
     requests |-> IF pc = "returned" THEN <<>> ELSE <<pc>>]

\* The call issues the request pc and awaits it.
Await(pc) == [call[1] EXCEPT !.pc = pc, !.requests = Append(@, pc)]

\* A message is the sequence of its words; an error has a message, or none.
\* text.includes(part)
Includes(text, part) ==
    \E i \in 1..(Len(text) - Len(part) + 1) :
        SubSeq(text, i, i + Len(part) - 1) = part

InvalidLoginCredentials == <<"Invalid", "login", "credentials">>
AlreadyRegistered == <<"already", "registered">>

\* error.message.includes(part) throws a TypeError on an error without message.
IncludesThrows(error) == error.message = Undefined
MessageIncludes(error, part) == Includes(error.message[1], part)

\* signIn takes every error for a missing account.
UserNotFound_AnyError(error) == TRUE

\* error.message.includes('Invalid login credentials')
UserNotFound(error) == MessageIncludes(error, InvalidLoginCredentials)

Awaiting(pc) == PageAlive /\ call # Undefined /\ call[1].pc = pc
NoCall == IF call = Undefined THEN TRUE ELSE call[1].pc = "returned"
Returned(result) == Some([call[1] EXCEPT !.pc = "returned", !.result = result])

HomeTimer == "/"

\* signIn(email, password) is called and awaits signInWithPassword.
signIn(email) ==
    /\ PageAlive
    /\ NoCall
    /\ call' = Some(Call("signIn", "signIn:signInWithPassword", email, Undefined))
    /\ UNCHANGED <<user, session, profile, loading, authSession, profiles,
                   timers, fetches, sessionPending, href>>
    /\ UNCHANGED <<builderVars, steps>>

\* The password sign-in succeeds: the client holds the user's session and has
\* called the subscribed callback with it before the await resumes.
passwordAccepted(next, userData) ==
    /\ authSession' = Some(SessionOf(UserIdOf(call[1].email)))
    /\ AuthStateChanged(authSession')
    /\ call' = Some([Await(next) EXCEPT !.userId = UserIdOf(call[1].email),
                                        !.userData = userData])

\* error.message includes 'Invalid login credentials': return await signUp(...)
signInFallsBack ==
    /\ call' = Some([Await("signUp:signUp") EXCEPT
                        !.userData = Some([full_name |-> LocalPart(call[1].email),
                                           username |-> LocalPart(call[1].email),
                                           role |-> "analyst"])])
    /\ UNCHANGED <<user, session, profile, loading, authSession, timers>>

\* Any other error is thrown into the catch block: return {error}.
callFailed ==
    /\ call' = Returned("error")
    /\ UNCHANGED <<user, session, profile, loading, authSession, timers>>

\* signInWithPassword of signIn answers with error, or with none and the
\* user whose user_metadata is metadata.
signInAnswered(error, metadata) ==
    /\ Awaiting("signIn:signInWithPassword")
    /\ IF error = Undefined THEN passwordAccepted("signIn:upsert", metadata)
       ELSE IF IncludesThrows(error[1]) THEN callFailed
       ELSE IF UserNotFound(error[1]) THEN signInFallsBack
       ELSE callFailed
    /\ UNCHANGED <<profiles, fetches, sessionPending, href>>
    /\ UNCHANGED <<builderVars, steps>>

\* signUp(email, password, userData) is called and awaits auth.signUp.
signUp(email, userData) ==
    /\ PageAlive
    /\ NoCall
    /\ call' = Some(Call("signUp", "signUp:signUp", email, userData))
    /\ UNCHANGED <<user, session, profile, loading, authSession, profiles,
                   timers, fetches, sessionPending, href>>
    /\ UNCHANGED <<builderVars, steps>>

\* auth.signUp answers: no error or 'already registered' goes on to the
\* password sign-in, any other error is thrown.
signUpAnswered(error) ==
    /\ Awaiting("signUp:signUp")
    /\ IF error = Undefined
       THEN /\ call' = Some(Await("signUp:signInWithPassword"))
            /\ UNCHANGED <<user, session, profile, loading, authSession, timers>>
       ELSE IF IncludesThrows(error[1]) THEN callFailed
       ELSE IF MessageIncludes(error[1], AlreadyRegistered)
       THEN /\ call' = Some(Await("signUp:signInWithPassword"))
            /\ UNCHANGED <<user, session, profile, loading, authSession, timers>>
       ELSE callFailed
    /\ UNCHANGED <<profiles, fetches, sessionPending, href>>
    /\ UNCHANGED <<builderVars, steps>>

\* signInWithPassword of signUp answers.
signUpSignInAnswered ==
    /\ Awaiting("signUp:signInWithPassword")
    /\ \/ passwordAccepted("signUp:upsert", call[1].userData)
       \/ callFailed
    /\ UNCHANGED <<profiles, fetches, sessionPending, href>>
    /\ UNCHANGED <<builderVars, steps>>

\* The row the awaited upsert carries.
UpsertRow ==
    IF call[1].pc = "signIn:upsert"
    THEN SignInRow(call[1].userId, call[1].email, call[1].userData)
    ELSE SignUpRow(call[1].userId, call[1].email, call[1].userData)

profileUpserted == profiles' = ProfilesUpsert(profiles, UpsertRow)

\* profileError: console.warn, and on as if there were none.
profileUpsertRefused == UNCHANGED profiles

\* The upsert answers; the redirect is deferred and {error: null} returned.
upsertAnswered ==
    /\ PageAlive
    /\ call # Undefined
    /\ call[1].pc \in {"signIn:upsert", "signUp:upsert"}
    /\ \/ profileUpserted
       \/ profileUpsertRefused
    /\ timers' = timers \cup {HomeTimer}
    /\ call' = Returned("null")
    /\ UNCHANGED <<user, session, profile, loading, authSession, fetches,
                   sessionPending, href>>
    /\ UNCHANGED <<builderVars, steps>>

\* setTimeout(() => { window.location.href = '/' }, 100) runs.
redirectHome ==
    /\ PageAlive
    /\ HomeTimer \in timers
    /\ href' = Some(<<>>)
    /\ timers' = timers \ {HomeTimer}
    /\ UNCHANGED <<user, session, profile, loading, authSession, profiles,
                   fetches, sessionPending, call>>
    /\ UNCHANGED <<builderVars, steps>>

\* The document of the assigned address is loaded: a new AuthProvider, the
\* client's session and the table as they are.
pageLoad ==
    /\ href # Undefined
    /\ user' = Undefined
    /\ session' = Undefined
    /\ profile' = Undefined
    /\ loading' = TRUE
    /\ timers' = {}
    /\ fetches' = {}
    /\ sessionPending' = TRUE
    /\ href' = Undefined
    /\ call' = Undefined
    /\ UNCHANGED <<authSession, profiles>>
    /\ UNCHANGED <<builderVars, steps>>

\* updateProfile(updates): without a user it returns {error: 'No user found'},
\* with one it awaits the update of the row of user.id.
updateProfile(updates) ==
    /\ PageAlive
    /\ NoCall
    /\ call' = IF user = Undefined
               THEN Some([Call("updateProfile", "returned", <<>>, Some(updates))
                             EXCEPT !.result = "No user found"])
               ELSE Some([Call("updateProfile", "updateProfile:update", <<>>,
                               Some(updates))
                             EXCEPT !.userId = user[1]])
    /\ UNCHANGED <<user, session, profile, loading, authSession, profiles,
                   timers, fetches, sessionPending, href>>
    /\ UNCHANGED <<builderVars, steps>>

\* The update answers: without error fetchProfile(user.id) is awaited.
updateAnswered ==
    /\ Awaiting("updateProfile:update")
    /\ \/ /\ profiles' = ProfilesUpdate(profiles, call[1].userId, call[1].userData[1])
          /\ call' = Some(Await("updateProfile:fetchProfile"))
       \/ /\ call' = Returned("error")
          /\ UNCHANGED profiles
    /\ UNCHANGED <<user, session, profile, loading, authSession, timers,
                   fetches, sessionPending, href>>
    /\ UNCHANGED <<builderVars, steps>>

\* The fetchProfile awaited by updateProfile ends, and {error: null} is returned.
updateProfileFetched ==
    /\ Awaiting("updateProfile:fetchProfile")
    /\ \/ fetchProfileData(call[1].userId)
       \/ fetchProfileError(call[1].userId)
    /\ call' = Returned("null")
    /\ UNCHANGED <<user, session, loading, authSession, profiles, timers,
                   fetches, sessionPending, href>>
    /\ UNCHANGED <<builderVars, steps>>

\* ---------------------------------------------------------------- inputs
Names == {"", "A"}
Descriptions == {"", "D"}
RowClaim ==
    <<[key |-> "a", value |-> JSString(<<"x">>)],
      [key |-> "b", value |-> JSNumber(<<"5">>)],
      [key |-> "c", value |-> JSString(<<"3">>)]>>
RowCoerced ==
    <<[key |-> "n", value |-> JSNull],
      [key |-> "e", value |-> JSString(<<>>)],
      [key |-> "p", value |-> JSString(<<"3", "p", "x">>)]>>
RowMixed ==
    <<[key |-> "z", value |-> JSNumber(<<"N", "a", "N">>)],
      [key |-> "t", value |-> JSBoolean(<<"t", "r", "u", "e">>)],
      [key |-> "s", value |-> JSString(<<" ", "-", "7", " ">>)]>>
Q1 == [id |-> <<"q1">>, title |-> <<"Q">>, description |-> Some("d"),
       query_text |-> "SELECT 1",
       results |-> Some(<<[results |-> <<RowClaim, RowCoerced>>]>>)]
Q2 == [Q1 EXCEPT !.id = <<"q2">>,
                 !.results = Some(<<[results |-> <<RowCoerced>>]>>)]
Q3 == [Q1 EXCEPT !.id = <<"q3">>,
                 !.results = Some(<<[results |-> <<RowMixed>>], [results |-> <<RowClaim>>]>>)]
Q4 == [Q1 EXCEPT !.id = <<"q4">>, !.results = Undefined]
Q5 == [Q1 EXCEPT !.id = <<"q5">>, !.results = Some(<<>>)]
Q6 == [Q1 EXCEPT !.id = <<"q6">>, !.results = Some(<<[results |-> <<>>]>>)]
\* The queries the Query Selection dialog lists.
savedQueries == <<Q1, Q2, Q3, Q4, Q5, Q6>>
AxisKeys == {"a", "b", "c", "n", "e", "p", "z", "t", "s"}
PanelTypes == {"pie", "line"}
V1 == [type |-> Some("pie"), xAxis |-> Some("a"), yAxis |-> Some("b"), aggregation |-> Undefined]
Updates ==
    {[title |-> <<"X">>],
     [savedQuery |-> Some(Q1)],
     [visualConfig |-> Some(V1)],
     [savedQuery |-> Undefined, visualConfig |-> Undefined]}
AbsentWidgetId == WidgetId(-1)
UpdateIds == {dashboardState.widgets[k].id : k \in 1..Len(dashboardState.widgets)}
             \cup {AbsentWidgetId}
Viewports == {"lg", "xxs"}
EditTypes == {"bar"}
RouteIds == {DashboardId(t) : t \in 0..MaxClock}

\* ----------------------------------------- the widget palette (SpecPalette)
NextPalette ==
    \/ \E type \in widgetTypes : addWidget(type) /\ UNCHANGED idle
    \/ \E bp \in Viewports :
           onLayoutChange(GridLayouts(dashboardState, bp)) /\ UNCHANGED idle
    \/ \E id \in UpdateIds : updateWidget(id, [title |-> <<"X">>]) /\ UNCHANGED idle
    \/ Tick /\ UNCHANGED idle

SpecPalette == Init /\ [][NextPalette]_vars

\* ------------------------------------------- an editing session (Spec)
Next ==
    \/ \E type \in EditTypes : addWidget(type) /\ UNCHANGED idle
    \/ \E id \in UpdateIds, updates \in Updates :
           updateWidget(id, updates) /\ UNCHANGED idle
    \/ onLayoutChange(GridLayouts(dashboardState, "lg")) /\ UNCHANGED idle
    \/ \E value \in Names : setDashboardName(value) /\ UNCHANGED idle
    \/ exportDashboard /\ UNCHANGED idle
    \/ Tick /\ UNCHANGED idle

Spec == Init /\ [][Next]_vars

\* ------------------------------ saving and loading (SpecPersist)
Counted(A) ==
    /\ steps < MaxSteps
    /\ A
    /\ steps' = steps + 1
    /\ UNCHANGED <<panelVars, otherTab, authVars>>

NextPersist ==
    \/ Counted(addWidget("bar"))
    \/ Counted(\E id \in UpdateIds \ {AbsentWidgetId}, updates \in Updates :
                   updateWidget(id, updates))
    \/ Counted(onLayoutChange(GridLayouts(dashboardState, "lg")))
    \/ Counted(\E value \in Names : setDashboardName(value))
    \/ Counted(\E value \in Descriptions : setDashboardDescription(value))
    \/ Counted(saveDashboard)
    \/ Counted(exportDashboard)
    \/ Counted(\E name \in Names, description \in Descriptions :
                   onSave(name, description))
    \/ Counted(\E id \in RouteIds : loadEffect(id))
    \/ Counted(Mount)
    \/ Counted(Tick)

SpecPersist == Init /\ [][NextPersist]_vars

\* --------------------------- two tabs on one dashboard (SpecSessions)
\* The store holds the record an earlier session saved under dashboard-0 for
\* a dashboard named A without widgets.
InitSessions ==
    /\ Fresh
    /\ store = Upsert(<<>>, [DashboardConfig EXCEPT !.name = "A"])
    /\ AuthFresh
    /\ authSession = Undefined
    /\ profiles = <<>>

CountedSession(A) ==
    /\ steps < MaxSteps
    /\ A
    /\ steps' = steps + 1
    /\ UNCHANGED <<panelVars, authVars>>

NextSessions ==
    \/ CountedSession(\E id \in RouteIds : loadEffect(id) /\ UNCHANGED otherTab)
    \/ CountedSession(addWidget("bar") /\ UNCHANGED otherTab)
    \/ CountedSession(\E value \in Descriptions :
                          setDashboardDescription(value) /\ UNCHANGED otherTab)
    \/ CountedSession(saveDashboard /\ UNCHANGED otherTab)
    \/ CountedSession(switchSession)

SpecSessions == InitSessions /\ [][NextSessions]_vars

\* ------------------------------- the grid's callback (SpecGrid)
\* The grid is rendered, and calls back, once there is a widget.
\* Values the callback is not protected against: no entries at all, and an
\* entry of no widget, wider than its breakpoint, off the grid and flat.
StrayLayouts ==
    [bp \in Breakpoints |->
        <<[i |-> AbsentWidgetId, x |-> 0 - 1, y |-> 0, w |-> COLS[bp] + 1, h |-> 0]>>]

SuppliedLayouts ==
    {GridLayouts(dashboardState, bp) : bp \in Viewports}
        \cup {INITIAL_LAYOUT, StrayLayouts}

NextGrid ==
    \/ \E type \in EditTypes : addWidget(type) /\ UNCHANGED idle
    \/ /\ dashboardState.widgets # <<>>
       /\ \E layouts \in SuppliedLayouts : onLayoutChange(layouts)
       /\ UNCHANGED idle
    \/ \E value \in Names : setDashboardName(value) /\ UNCHANGED idle
    \/ \E value \in Descriptions : setDashboardDescription(value) /\ UNCHANGED idle
    \/ Tick /\ UNCHANGED idle

SpecGrid == Init /\ [][NextGrid]_vars

\* --------------------------------- configuring a widget (SpecPanel)
\* The panel configures the selected widget: one widget is added.
NextPanel ==
    \/ /\ dashboardState.widgets = <<>>
       /\ \E type \in EditTypes : addWidget(type)
       /\ UNCHANGED idle
    \/ \E id \in UpdateIds : selectWidget(id) /\ UNCHANGED idlePanel
    \/ changeTitle(<<"X">>) /\ UNCHANGED idlePanel
    \/ changeQuery /\ UNCHANGED idlePanel
    \/ openQueryDialog /\ UNCHANGED idlePanel
    \/ dismissQueryDialog /\ UNCHANGED idlePanel
    \/ \E k \in DOMAIN savedQueries : selectQuery(savedQueries[k]) /\ UNCHANGED idlePanel
    \/ \E value \in PanelTypes : selectVisualizationType(value) /\ UNCHANGED idlePanel
    \/ \E value \in AxisKeys : selectXAxis(value) /\ UNCHANGED idlePanel
    \/ \E value \in AxisKeys : selectYAxis(value) /\ UNCHANGED idlePanel
    \/ selectAggregation("avg") /\ UNCHANGED idlePanel

SpecPanel == Init /\ [][NextPanel]_vars

\* ------------------------------- the session of a page (SpecAuth)
\* A row of the profiles table as signIn and signUp write it.
ProfileRow(userId) ==
    [id |-> userId, username |-> userId, full_name |-> "", role |-> "analyst",
     email_verified |-> TRUE, onboarding_completed |-> TRUE,
     total_earnings |-> 0, reputation_score |-> 0, bio |-> Undefined]

\* The page is loaded with or without a session held by the client; the
\* first user has a profile row, the second has none yet.
InitAuth ==
    /\ Fresh
    /\ store = <<>>
    /\ AuthFresh
    /\ authSession \in {Undefined} \cup {Some(s) : s \in Sessions}
    /\ profiles = [userId \in {"u1"} |-> ProfileRow(userId)]

\* -------------------------- signing in and the profile row (SpecSignIn)
Emails == {<<"u1", "x.io">>}
UserData == {Undefined, Some([full_name |-> "F", username |-> "n", role |-> "bounty_creator"])}
Metadata == {Undefined, Some([full_name |-> "F", role |-> "bounty_creator"])}
Messages ==
    {InvalidLoginCredentials,
     <<"AuthApiError:", "Invalid", "login", "credentials">>,
     <<"User", "already", "registered">>,
     <<"Email", "not", "confirmed">>}
Errors ==
    {Undefined, Some([message |-> Undefined])}
        \cup {Some([message |-> Some(m)]) : m \in Messages}
ProfileUpdates ==
    {[total_earnings |-> 5, reputation_score |-> 3,
      email_verified |-> FALSE, onboarding_completed |-> FALSE],
     [bio |-> Some("b")]}

NextSignIn ==
    \/ getSessionResolved
    \/ \E userId \in Users : fetchProfile(userId)
    \/ \E userId \in Users : fetchProfileDone(userId)
    \/ \E email \in Emails : signIn(email)
    \/ \E error \in Errors, metadata \in Metadata : signInAnswered(error, metadata)
    \/ \E email \in Emails, userData \in UserData : signUp(email, userData)
    \/ \E error \in Errors : signUpAnswered(error)
    \/ signUpSignInAnswered
    \/ upsertAnswered
    \/ redirectHome
    \/ pageLoad
    \/ \E updates \in ProfileUpdates : updateProfile(updates)
    \/ updateAnswered
    \/ updateProfileFetched
    \/ signOut

SpecSignIn == InitAuth /\ [][NextSignIn]_vars

\* ------------------- one call of signIn or signUp at a time (SpecCalls)
NextCalls ==
    \/ \E email \in Emails : signIn(email)
    \/ \E error \in Errors, metadata \in Metadata : signInAnswered(error, metadata)
    \/ \E email \in Emails, userData \in UserData : signUp(email, userData)
    \/ \E error \in Errors : signUpAnswered(error)
    \/ signUpSignInAnswered
    \/ upsertAnswered
    \/ redirectHome
    \/ pageLoad

\* Every backend call returns: a request awaited on a page that stays gets
\* its answer.
BackendAnswers ==
    /\ WF_vars(\E error \in Errors, metadata \in Metadata :
                   signInAnswered(error, metadata))
    /\ WF_vars(\E error \in Errors : signUpAnswered(error))
    /\ WF_vars(signUpSignInAnswered)
    /\ WF_vars(upsertAnswered)

SpecCalls == InitAuth /\ [][NextCalls]_vars /\ BackendAnswers

NextAuth ==
    \/ \E s \in {Undefined} \cup {Some(x) : x \in Sessions} : onAuthStateChange(s)
    \/ getSessionResolved
    \/ \E userId \in Users : fetchProfile(userId)
    \/ \E userId \in Users : fetchProfileDone(userId)
    \/ signOut

SpecAuth == InitAuth /\ [][NextAuth]_vars

\* ================================================================ claims
Widgets == dashboardState.widgets
Layouts == dashboardState.layouts
WidgetIds(widgets) == {widgets[k].id : k \in 1..Len(widgets)}
EntriesFor(items, id) == {j \in 1..Len(items) : items[j].i = id}
IsPrefix(s, t) == Len(s) <= Len(t) /\ SubSeq(t, 1, Len(s)) = s

\* C1: every widget id of Dashboard State has exactly one layout entry with
\* that id as i in each of the five breakpoint arrays.
C1_OneEntryPerWidget ==
    \A k \in 1..Len(Widgets) : \A bp \in Breakpoints :
        Cardinality(EntriesFor(Layouts[bp], Widgets[k].id)) = 1

\* C5: addWidget(type) appends one widget of that type and one entry per
\* breakpoint with the new widget's id, x = 0, h = 4 and w = min(6, columns),
\* the columns being lg 12, md 10, sm 6, xs 4, xxs 2; what was there is kept.
C5_Columns == [lg |-> 12, md |-> 10, sm |-> 6, xs |-> 4, xxs |-> 2]

C5_Appended(type) ==
    LET old == Widgets
        new == dashboardState'.widgets
        added == new[Len(new)]
    IN  /\ Len(new) = Len(old) + 1
        /\ IsPrefix(old, new)
        /\ added.type = type
        /\ \A bp \in Breakpoints :
              LET before == Layouts[bp]
                  after == dashboardState'.layouts[bp]
                  entry == after[Len(after)]
              IN  /\ Len(after) = Len(before) + 1
                  /\ IsPrefix(before, after)
                  /\ entry.i = added.id
                  /\ entry.x = 0
                  /\ entry.h = 4
                  /\ entry.w = (IF 6 < C5_Columns[bp] THEN 6 ELSE C5_Columns[bp])
                  /\ entry.w <= C5_Columns[bp]

C5_AddWidget == [][\A type \in widgetTypes : addWidget(type) => C5_Appended(type)]_vars

\* C5 witness: a table widget was added after a widget whose lg entry the grid
\* had already placed; its xs entry is 4 wide and its xxs entry 2 wide.
C5_Witness ==
    /\ Len(Widgets) = 2
    /\ Widgets[2].type = "table"
    /\ Layouts.lg[1].y = 0
    /\ Layouts.lg[2].y = Infinity
    /\ Layouts.xs[2].w = 4
    /\ Layouts.xxs[2].w = 2
    /\ Layouts.xs[2].i = Widgets[2].id

\* C6: the ids of the widgets of Dashboard State are pairwise distinct.
C6_DistinctIds ==
    \A j, k \in 1..Len(Widgets) : j # k => Widgets[j].id # Widgets[k].id

\* C4: updateWidget(id, updates) gives every widget whose id is id the values
\* of the fields updates supplies and keeps its other fields; the widgets of
\* another id, the order of the widgets and the layouts stay as they were; with
\* no widget of that id Dashboard State is unchanged and nothing is reported.
C4_Merged(id, updates) ==
    LET old == Widgets
        new == dashboardState'.widgets
    IN  /\ Len(new) = Len(old)
        /\ \A k \in 1..Len(old) :
              IF old[k].id = id
              THEN /\ DOMAIN new[k] = DOMAIN old[k]
                   /\ \A f \in DOMAIN old[k] :
                         new[k][f] = (IF f \in DOMAIN updates THEN updates[f]
                                      ELSE old[k][f])
              ELSE new[k] = old[k]
        /\ dashboardState'.layouts = Layouts
        /\ id \notin WidgetIds(old) =>
              /\ dashboardState' = dashboardState
              /\ Calls(effects', "toast") = <<>>

C4_UpdateWidget ==
    [][\A id \in UpdateIds, updates \in Updates :
           updateWidget(id, updates) => C4_Merged(id, updates)]_vars

\* C4 witness: of two widgets with different ids the first was renamed while
\* it kept its bound query and its configuration; the second was not touched.
C4_Witness ==
    /\ Len(Widgets) = 2
    /\ Widgets[1].id # Widgets[2].id
    /\ Widgets[1].title = <<"X">>
    /\ Widgets[1].savedQuery = Some(Q1)
    /\ Widgets[1].visualConfig = Some(V1)
    /\ Widgets[2].title = DefaultTitle(Widgets[2].type)
    /\ Widgets[2].savedQuery = Undefined

\* C10: exportDashboard produces one document whose widgets array has the
\* length and the ids of the in-memory widgets, calls the Dashboard Service
\* not at all and leaves Dashboard State, name and description unchanged.
C10_Exported ==
    LET downloads == Calls(effects', "download")
    IN  /\ Len(downloads) = 1
        /\ LET exported == downloads[1].arg.document.widgets
           IN  /\ Len(exported) = Len(Widgets)
               /\ {exported[k].id : k \in 1..Len(exported)} = WidgetIds(Widgets)
        /\ Calls(effects', "DashboardService.saveDashboard") = <<>>
        /\ Calls(effects', "DashboardService.getDashboardById") = <<>>
        /\ store' = store
        /\ UNCHANGED <<dashboardState, dashboardName, dashboardDescription>>

C10_ExportDashboard == [][exportDashboard => C10_Exported]_vars

\* C10 witness: an export ran with an empty name over a widget bound to a
\* query and a widget bound to none, still at y = Infinity.
C10_Witness ==
    /\ Calls(effects, "download") # <<>>
    /\ dashboardName = ""
    /\ Len(Widgets) = 2
    /\ Widgets[1].savedQuery # Undefined
    /\ Widgets[2].savedQuery = Undefined
    /\ Widgets[2].y = Infinity

Toasts(es) == [k \in 1..Len(Calls(es, "toast")) |-> Calls(es, "toast")[k].arg]

\* C2: loading a saved dashboard by its id leaves name, description and
\* layouts equal to the saved ones, whatever the builder held, and yields the
\* saved widgets in order with their id, title, type and visualConfig.
C2_Restored(id) ==
    LET saved == store[id]
        loaded == dashboardState'.widgets
    IN  /\ dashboardName' = saved.name
        /\ dashboardDescription' = saved.description
        /\ dashboardState'.layouts = saved.layout
        /\ Len(loaded) = Len(saved.widgets)
        /\ \A k \in 1..Len(loaded) :
              /\ loaded[k].id = saved.widgets[k].id
              /\ loaded[k].title = saved.widgets[k].title
              /\ loaded[k].type = saved.widgets[k].type
              /\ loaded[k].visualConfig = saved.widgets[k].options

C2_RoundTrip ==
    [][\A id \in RouteIds :
           (loadEffect(id) /\ id \in DOMAIN store) => C2_Restored(id)]_vars

\* C3: saveDashboard with an empty name calls the Dashboard Service not at
\* all, does not navigate, changes neither Dashboard State nor name nor
\* description, and emits one destructive validation toast and no other.
C3_Rejected ==
    /\ Calls(effects', "DashboardService.saveDashboard") = <<>>
    /\ Calls(effects', "navigate") = <<>>
    /\ store' = store
    /\ shown' = shown
    /\ UNCHANGED <<dashboardState, dashboardName, dashboardDescription>>
    /\ Toasts(effects') =
           <<[title |-> "Error", description |-> "Please enter a dashboard name",
              variant |-> "destructive"]>>

C3_SaveWithoutName == [][(saveDashboard /\ dashboardName = "") => C3_Rejected]_vars

\* C3 witness: a save was rejected for a dashboard that has a widget and a
\* description but no name.
C3_Witness ==
    /\ Len(Toasts(effects)) = 1
    /\ Toasts(effects)[1].description = "Please enter a dashboard name"
    /\ dashboardName = ""
    /\ dashboardDescription = "D"
    /\ Len(Widgets) = 1
    /\ store = <<>>

\* C7: a save with a name, the store not throwing, leaves under the route's
\* dashboard id, or under dashboard-<now> when the route has none, the record
\* of the in-memory name, description and layouts and of the widgets mapped in
\* order to {id, type, title, query, options, data}; other records are kept.
C7_Key == IF dashboardId # NoId THEN dashboardId ELSE <<"dashboard", now>>

C7_Query(widget) ==
    IF widget.savedQuery = Undefined THEN Undefined
    ELSE <<widget.savedQuery[1].query_text>>

C7_Upserted ==
    /\ DOMAIN store' = DOMAIN store \cup {C7_Key}
    /\ \A other \in DOMAIN store \ {C7_Key} : store'[other] = store[other]
    /\ LET record == store'[C7_Key]
       IN  /\ record.id = C7_Key
           /\ record.name = dashboardName
           /\ record.description = dashboardDescription
           /\ record.layout = Layouts
           /\ Len(record.widgets) = Len(Widgets)
           /\ \A k \in 1..Len(Widgets) :
                 record.widgets[k] =
                     [id |-> Widgets[k].id, type |-> Widgets[k].type,
                      title |-> Widgets[k].title, query |-> C7_Query(Widgets[k]),
                      options |-> Widgets[k].visualConfig, data |-> Widgets[k].data]

C7_SaveIsUpsert == [][(saveDashboard /\ saveStored) => C7_Upserted]_vars

\* C7 witness: a second record was stored next to one of another id, from a
\* widget with a bound query, under a newly generated id.
C7_Witness ==
    /\ Cardinality(DOMAIN store) = 2
    /\ Len(effects) = 3
    /\ effects[1].call = "DashboardService.saveDashboard"
    /\ effects[1].arg = store[effects[1].arg.id]
    /\ effects[1].arg.id = <<"dashboard", now>>
    /\ Len(effects[1].arg.widgets) = 1
    /\ effects[1].arg.widgets[1].query = <<"SELECT 1">>

\* C8: when the store call throws, saveDashboard ends without navigating,
\* having called the store once, with one destructive failure toast and no
\* other, and Dashboard State, name and description are unchanged.
C8_Caught ==
    /\ Len(Calls(effects', "DashboardService.saveDashboard")) = 1
    /\ Calls(effects', "navigate") = <<>>
    /\ shown' = shown
    /\ UNCHANGED <<dashboardState, dashboardName, dashboardDescription>>
    /\ Toasts(effects') =
           <<[title |-> "Error", description |-> "Failed to save dashboard",
              variant |-> "destructive"]>>

C8_SaveThrows == [][(saveDashboard /\ saveThrown) => C8_Caught]_vars

\* C8 witness: the store threw on the first save of a named dashboard with a
\* widget, where a successful save would have navigated.
C8_Witness ==
    /\ Len(Toasts(effects)) = 1
    /\ Toasts(effects)[1].description = "Failed to save dashboard"
    /\ dashboardId = NoId
    /\ dashboardName = "A"
    /\ Len(Widgets) = 1
    /\ shown = "DashboardBuilder"

\* C9: the load effect, for an id the Dashboard Service has nothing under,
\* emits a destructive not-found toast, leaves name, description and Dashboard
\* State unchanged and navigates to the dashboard list route: one navigation,
\* to a path for which App declares a route, so not to its catch-all.
C9_Redirected ==
    /\ Toasts(effects') =
           <<[title |-> "Error", description |-> "Dashboard not found",
              variant |-> "destructive"]>>
    /\ UNCHANGED <<dashboardState, dashboardName, dashboardDescription>>
    /\ Len(Calls(effects', "navigate")) = 1
    /\ shown' = RouteElement(Calls(effects', "navigate")[1].arg)
    /\ shown' # "NotFound"

C11_StoredThenNavigated ==
    LET saves == Calls(effects', "DashboardService.saveDashboard")
        navs == Calls(effects', "navigate")
    IN  /\ Len(saves) = 1
        /\ effects'[1].call = "DashboardService.saveDashboard"
        /\ saves[1].arg.id \in DOMAIN store'
        /\ store'[saves[1].arg.id] = saves[1].arg
        /\ IF dashboardId = NoId
           THEN /\ Len(navs) = 1
                /\ effects'[2].call = "navigate"
                /\ navs[1].arg = <<"dashboard", saves[1].arg.id>>
           ELSE navs = <<>>

C11_NeverNavigated ==
    /\ Calls(effects', "navigate") = <<>>
    /\ shown' = shown

C11_SaveNavigation ==
    [][/\ (saveDashboard /\ saveStored) => C11_StoredThenNavigated
       /\ (saveDashboard /\ dashboardId # NoId) => C11_NeverNavigated]_vars

\* C11 witness: the first save of a dashboard with a widget stored the record
\* under dashboard-<now> and then navigated to /dashboard/dashboard-<now>.
C11_Witness ==
    /\ dashboardId = NoId
    /\ Len(effects) = 3
    /\ effects[1].call = "DashboardService.saveDashboard"
    /\ effects[2].call = "navigate"
    /\ effects[2].arg = <<"dashboard", <<"dashboard", now>>>>
    /\ <<"dashboard", now>> \in DOMAIN store
    /\ Len(Widgets) = 1

\* C12: after any saveDashboard or exportDashboard, successful or failed, the
\* router of App still shows the builder, with the Dashboard State it had, so
\* addWidget, updateWidget, onLayoutChange, saveDashboard and exportDashboard
\* (all guarded by the builder being mounted) remain enabled.
C12_Editing ==
    /\ shown' = "DashboardBuilder"
    /\ dashboardState' = dashboardState

C12_EditingReentered == [][(saveDashboard \/ exportDashboard) => C12_Editing]_vars

\* C13: for a widget with a bound query the X-axis candidates are the keys of
\* the first row of the query's first result set, the Y-axis candidates are
\* those of these keys whose value in that row is a number or coerces to one
\* (for {a: "x", b: 5, c: "3"}: b and c, not a), the Y-axis candidates are
\* among the X-axis candidates, and both are empty without results.
C13_FirstRowOf(savedQuery) ==
    CASE savedQuery.id = <<"q1">> -> RowClaim
      [] savedQuery.id = <<"q2">> -> RowCoerced
      [] savedQuery.id = <<"q3">> -> RowMixed
      [] OTHER -> <<>>

\* What Number() makes a number of: 5, "3", null (0), "" (0), true (1),
\* " -7 " (-7); NaN is a value of type number; "x" and "3px" are neither.
C13_Numeric ==
    {JSNumber(<<"5">>), JSString(<<"3">>), JSNull, JSString(<<>>),
     JSBoolean(<<"t", "r", "u", "e">>), JSString(<<" ", "-", "7", " ">>),
     JSNumber(<<"N", "a", "N">>)}

C13_Candidates(savedQuery) ==
    LET row == C13_FirstRowOf(savedQuery)
        xs == XAxisOptions(savedQuery)
        ys == YAxisOptions(savedQuery)
    IN  /\ xs = [k \in 1..Len(row) |-> row[k].key]
        /\ ys = SelectSeq(xs, LAMBDA key :
                     \E k \in 1..Len(row) :
                         row[k].key = key /\ row[k].value \in C13_Numeric)
        /\ {ys[k] : k \in 1..Len(ys)} \subseteq {xs[k] : k \in 1..Len(xs)}
        /\ savedQuery.id \in {<<"q4">>, <<"q5">>, <<"q6">>} => xs = <<>> /\ ys = <<>>
        /\ savedQuery.id = <<"q1">> => xs = <<"a", "b", "c">> /\ ys = <<"b", "c">>

C13_AxisCandidates ==
    \A k \in 1..Len(Widgets) :
        Widgets[k].savedQuery # Undefined => C13_Candidates(Widgets[k].savedQuery[1])

\* C13 witness: the query with first row {a: "x", b: 5, c: "3"} is bound and
\* the Y-axis was set from its candidates to c, the X-axis to a.
C13_Witness ==
    /\ Len(Widgets) = 1
    /\ Widgets[1].savedQuery = Some(Q1)
    /\ Widgets[1].visualConfig # Undefined
    /\ Widgets[1].visualConfig[1].xAxis = Some("a")
    /\ Widgets[1].visualConfig[1].yAxis = Some("c")

\* C14: in every reachable state of AuthProvider a non-null profile comes
\* with a non-null user whose id is the profile's id.
C14_ProfileOfUser ==
    profile # Undefined => user # Undefined /\ user[1] = profile[1].id

\* C15: onSave(name, description) of the save dialog sets name and
\* description, and the saveDashboard it calls does not use them: with the
\* name held before empty it shows the validation error and stores nothing,
\* otherwise what it passes to the store, and what is stored when the store
\* accepts it, carries the name and description held before.
C15_SavedAsHeld(name, description) ==
    LET saves == Calls(effects', "DashboardService.saveDashboard")
    IN  /\ dashboardName' = name
        /\ dashboardDescription' = description
        /\ IF dashboardName = ""
           THEN /\ saves = <<>>
                /\ store' = store
                /\ Toasts(effects') =
                       <<[title |-> "Error",
                          description |-> "Please enter a dashboard name",
                          variant |-> "destructive"]>>
           ELSE /\ Len(saves) = 1
                /\ saves[1].arg.name = dashboardName
                /\ saves[1].arg.description = dashboardDescription
                /\ store' # store =>
                       /\ store'[saves[1].arg.id].name = dashboardName
                       /\ store'[saves[1].arg.id].description = dashboardDescription

C15_StaleSave ==
    [][\A name \in Names, description \in Descriptions :
           onSave(name, description) => C15_SavedAsHeld(name, description)]_vars

\* C15 witness: the dialog was confirmed with the name A while no name was
\* held: A is now held, the save was rejected for the missing name and
\* nothing is stored.
C15_Witness ==
    /\ dashboardName = "A"
    /\ dashboardDescription = "D"
    /\ Len(Toasts(effects)) = 1
    /\ Toasts(effects)[1].description = "Please enter a dashboard name"
    /\ store = <<>>
    /\ Len(Widgets) = 1

\* C16: last write wins.  A save under an id the store already holds a
\* record for, whichever session stored it, is not rejected and not reported
\* as a conflict, and leaves under that id wholly the record built from the
\* state of the session that saves: name, description, layouts, widgets and
\* both time stamps, nothing of the record held before.
C16_Key == IF dashboardId # NoId THEN dashboardId ELSE <<"dashboard", now>>

C16_Built ==
    [id |-> C16_Key,
     name |-> dashboardName,
     description |-> dashboardDescription,
     layout |-> Layouts,
     widgets |-> [k \in 1..Len(Widgets) |->
                     [id |-> Widgets[k].id, type |-> Widgets[k].type,
                      title |-> Widgets[k].title,
                      query |-> IF Widgets[k].savedQuery = Undefined THEN <<>>
                                ELSE <<Widgets[k].savedQuery[1].query_text>>,
                      options |-> Widgets[k].visualConfig,
                      data |-> Widgets[k].data]],
     createdAt |-> now,
     updatedAt |-> now]

C16_Overwritten ==
    /\ DOMAIN store' = DOMAIN store
    /\ store'[C16_Key] = C16_Built
    /\ Toasts(effects') =
           <<[title |-> "Success", description |-> "Dashboard saved successfully",
              variant |-> "default"]>>

C16_LastWriteWins ==
    [][(saveDashboard /\ saveStored /\ C16_Key \in DOMAIN store)
           => C16_Overwritten]_vars

\* C16 witness: both tabs hold dashboard-0; the other tab saved it with a
\* widget and the description D, then this tab, which had loaded it before,
\* saved it without widgets and description, and that is the record stored.
C16_Witness ==
    /\ dashboardId = <<"dashboard", 0>>
    /\ otherTab.dashboardId = <<"dashboard", 0>>
    /\ Len(otherTab.effects) = 2
    /\ otherTab.effects[1].call = "DashboardService.saveDashboard"
    /\ otherTab.effects[2].arg.description = "Dashboard saved successfully"
    /\ Len(otherTab.effects[1].arg.widgets) = 1
    /\ otherTab.effects[1].arg.description = "D"
    /\ Len(effects) = 2
    /\ effects[1].call = "DashboardService.saveDashboard"
    /\ effects[2].arg.description = "Dashboard saved successfully"
    /\ effects[1].arg.widgets = <<>>
    /\ effects[1].arg.description = ""
    /\ store[<<"dashboard", 0>>] = effects[1].arg

C18_Reconstructed(id) ==
    LET saved == store[id].widgets
        loaded == dashboardState'.widgets
    IN  /\ Len(loaded) = Len(saved)
        /\ dashboardState'.layouts = store[id].layout
        /\ \A k \in 1..Len(saved) :
              /\ loaded[k].x = 0
              /\ loaded[k].y = 0
              /\ loaded[k].w = 6
              /\ loaded[k].h = 4
              /\ IF saved[k].query # <<>>
                 THEN /\ Len(loaded[k].savedQuery) = 1
                      /\ DOMAIN loaded[k].savedQuery[1] =
                             {"id", "title", "query_text", "description"}
                      /\ loaded[k].savedQuery[1].id = <<"query", saved[k].id>>
                      /\ loaded[k].savedQuery[1].title = saved[k].title
                      /\ loaded[k].savedQuery[1].query_text = saved[k].query[1]
                      /\ loaded[k].savedQuery[1].description = ""
                 ELSE loaded[k].savedQuery = <<>>

C19_Replaced(layouts) ==
    /\ \A bp \in Breakpoints : dashboardState'.layouts[bp] = layouts[bp]
    /\ DOMAIN dashboardState'.layouts = Breakpoints
    /\ dashboardState'.widgets = dashboardState.widgets
    /\ dashboardName' = dashboardName
    /\ dashboardDescription' = dashboardDescription

C19_LayoutsReplaced ==
    [][\A layouts \in SuppliedLayouts :
           onLayoutChange(layouts) => C19_Replaced(layouts)]_vars

\* C19 witness: with two widgets held, a name and a description, the layouts
\* are the supplied entry of no widget, wider than every breakpoint.
C19_Witness ==
    /\ Len(Widgets) = 2
    /\ dashboardName = "A"
    /\ dashboardDescription = "D"
    /\ \A bp \in Breakpoints :
          /\ Len(Layouts[bp]) = 1
          /\ Layouts[bp][1].i = <<"widget", 0 - 1>>
          /\ Layouts[bp][1].w > COLS[bp]

\* C20: a signIn or signUp whose password sign-in succeeded and whose profile
\* upsert is accepted leaves the row of the signed-in user with
\* total_earnings = 0, reputation_score = 0, email_verified = true and
\* onboarding_completed = true, whatever the row held, values written through
\* updateProfile included.
C20_Reset ==
    /\ call[1].userId \in DOMAIN profiles'
    /\ LET row == profiles'[call[1].userId]
       IN  /\ row.total_earnings = 0
           /\ row.reputation_score = 0
           /\ row.email_verified = TRUE
           /\ row.onboarding_completed = TRUE

C20_SignInResetsProfile == [][(upsertAnswered /\ profileUpserted) => C20_Reset]_vars

\* C20 witness: signIn has returned without error; the profile AuthProvider
\* still holds is the row as updateProfile had written it, with earnings 5 and
\* the flags false, and the stored row has 0, 0, true and true.
C20_Witness ==
    /\ call # Undefined
    /\ call[1].fn = "signIn"
    /\ call[1].pc = "returned"
    /\ call[1].result = "null"
    /\ profile # Undefined
    /\ profile[1].id = call[1].userId
    /\ profile[1].total_earnings = 5
    /\ profile[1].email_verified = FALSE
    /\ profiles[call[1].userId].total_earnings = 0
    /\ profiles[call[1].userId].reputation_score = 0
    /\ profiles[call[1].userId].email_verified = TRUE
    /\ profiles[call[1].userId].onboarding_completed = TRUE

\* C22: every signOut ends in one of two ways and in no other. When the
\* backend sign-out returns, user, session and profile are null and the
\* address assigned is /auth; when it throws, user, session and profile are
\* as they were and no address is assigned.
C22_Cleared ==
    /\ user' = Undefined
    /\ session' = Undefined
    /\ profile' = Undefined
    /\ href' = Some(<<"auth">>)

C22_Untouched == UNCHANGED <<user, session, profile, href>>

C22_SignOut ==
    [][signOut => /\ signOutReturned => C22_Cleared
                  /\ signOutThrown => C22_Untouched
                  /\ C22_Cleared \/ C22_Untouched]_vars

\* C22 witness: signIn has returned without error on this page, which set
\* user and session, and before its redirect runs signOut has returned:
\* nothing is held and /auth is assigned.
C22_Witness ==
    /\ call # Undefined
    /\ call[1].fn = "signIn"
    /\ call[1].pc = "returned"
    /\ call[1].result = "null"
    /\ HomeTimer \in timers
    /\ href = Some(<<"auth">>)
    /\ user = Undefined
    /\ session = Undefined
    /\ profile = Undefined
    /\ authSession = Undefined

\* C23: loading is true in a page just loaded. A step in which the
\* auth-state-change callback runs (called by the client on a change of its
\* session, or within a sign-out that returns) or in which the getSession
\* promise resolves leaves loading false; loading changes in no other step
\* and only from true to false; and once getSession has resolved loading is
\* false from then on.
C23_EventHandled ==
    \/ \E s \in {Undefined} \cup {Some(x) : x \in Sessions} : onAuthStateChange(s)
    \/ signOut /\ signOutReturned

C23_Loading ==
    /\ loading = TRUE
    /\ [][C23_EventHandled \/ getSessionResolved => ~loading']_vars
    /\ [][loading' # loading =>
             /\ loading
             /\ C23_EventHandled \/ getSessionResolved]_vars
    /\ ~sessionPending ~> [](~loading)

\* C23 witness: the callback has run on a page whose getSession promise is
\* still pending and which has not been left: loading is already false.
C23_Witness ==
    /\ ~loading
    /\ sessionPending
    /\ PageAlive

\* C21: a call of signIn or signUp that awaits a request returns, unless its
\* page is replaced first, and what it returns is {error: null} or {error}
\* with the error caught. The password sign-in of signIn goes on to signUp
\* exactly on an error whose message includes 'Invalid login credentials'.
\* A signIn call issues at most two password sign-ins and one sign-up, a
\* signUp call at most one of each and never the password sign-in of signIn.
C21_PasswordSignIns ==
    Len(SelectSeq(call[1].requests,
                  LAMBDA r : r \in {"signIn:signInWithPassword",
                                    "signUp:signInWithPassword"}))

C21_SignUps == Len(SelectSeq(call[1].requests, LAMBDA r : r = "signUp:signUp"))

C21_Bounded ==
    IF call = Undefined THEN TRUE
    ELSE /\ call[1].fn = "signIn" => C21_PasswordSignIns <= 2 /\ C21_SignUps <= 1
         /\ call[1].fn = "signUp" =>
                /\ C21_PasswordSignIns <= 1 /\ C21_SignUps = 1
                /\ \A i \in DOMAIN call[1].requests :
                       call[1].requests[i] # "signIn:signInWithPassword"
         /\ call[1].pc = "returned" => call[1].result \in {"null", "error"}

C21_InvalidCredentials ==
    {Some([message |-> Some(<<"Invalid", "login", "credentials">>)]),
     Some([message |-> Some(<<"AuthApiError:", "Invalid", "login", "credentials">>)])}

C21_FallsBackOnInvalidCredentials ==
    \A error \in Errors, metadata \in Metadata :
        signInAnswered(error, metadata) =>
            (call'[1].pc = "signUp:signUp" <=> error \in C21_InvalidCredentials)

C21_Pending == IF call = Undefined THEN FALSE ELSE call[1].pc # "returned"
C21_Returned == IF call = Undefined THEN FALSE ELSE call[1].pc = "returned"

C21_Terminates ==
    /\ []C21_Bounded
    /\ [][C21_FallsBackOnInvalidCredentials]_vars
    /\ C21_Pending ~> (C21_Returned \/ ~PageAlive)

\* C21 witness: a signIn call has fallen back to signUp and returned without
\* error after two password sign-ins, one sign-up and the upsert.
C21_Witness ==
    /\ call # Undefined
    /\ call[1].fn = "signIn"
    /\ call[1].pc = "returned"
    /\ call[1].result = "null"
    /\ call[1].requests = <<"signIn:signInWithPassword", "signUp:signUp",
                            "signUp:signInWithPassword", "signUp:upsert">>
====
